---- MODULE Spec2Model ----
(***************************************************************************)
(* Message scheduling and delivery subsystem of src/server/scheduler.ts.   *)
(*                                                                         *)
(* Instants are whole seconds since 1970-01-01T00:00:00 (the code's Date   *)
(* values divided by MsPerSecond); the server's local time zone is taken   *)
(* to be UTC, so getHours/setHours/setDate/setMonth act on UTC fields.     *)
(*                                                                         *)
(* Every `await` of the code is a suspension point.  An action runs the    *)
(* synchronous code from one resumption up to the next await, together     *)
(* with the effect of the awaited storage operation; the latency of that   *)
(* operation is the delay before the action that resumes after it.         *)
(***************************************************************************)
EXTENDS Integers, Sequences, FiniteSets, Bags, TLC

\* ------------------------------------------------------------------ bounds
MaxRecords == 3     \* rows the scheduled_messages table may hold
MaxCalls   == 2     \* API calls (schedule / update / cancel) over a run
MaxCrashes == 1     \* process crashes over a run
MaxFaults  == 2     \* rejected storage calls over a run
MaxTicks   == 1     \* seconds the clock advances past T0 by itself

\* --------------------------------------------------------------- constants
MsPerSecond        == 1000
VeryNearMs         == 5000      \* scheduler.ts:201
ImmediateDelayMs   == 1000      \* scheduler.ts:237
GroupIdBase        == 1000      \* scheduler.ts:43
TransientId        == 0         \* scheduler.ts:75
SecondsPerMinute   == 60
SecondsPerHour     == 60 * SecondsPerMinute
SecondsPerDay      == 24 * SecondsPerHour

VeryNear       == VeryNearMs \div MsPerSecond
ImmediateDelay == ImmediateDelayMs \div MsPerSecond

\* ------------------------------------------------------------ Date (UTC)
\* Day number (days since 1970-01-01) of a proleptic Gregorian date, the
\* date being allowed to lie outside its month as in ECMAScript MakeDay.
DaysFromCivil(y, m, d) ==
    LET yy  == IF m <= 2 THEN y - 1 ELSE y
        era == yy \div 400
        yoe == yy - era * 400
        mp  == IF m > 2 THEN m - 3 ELSE m + 9
        doy == (153 * mp + 2) \div 5 + d - 1
        doe == yoe * 365 + yoe \div 4 - yoe \div 100 + doy
    IN  era * 146097 + doe - 719468

\* [year, month (1..12), date] of a day number.
CivilFromDays(z) ==
    LET zz  == z + 719468
        era == zz \div 146097
        doe == zz - era * 146097
        yoe == (doe - doe \div 1460 + doe \div 36524 - doe \div 146096) \div 365
        doy == doe - (365 * yoe + yoe \div 4 - yoe \div 100)
        mp  == (5 * doy + 2) \div 153
        d   == doy - (153 * mp + 2) \div 5 + 1
        m   == IF mp < 10 THEN mp + 3 ELSE mp - 9
        y   == yoe + era * 400 + (IF m <= 2 THEN 1 ELSE 0)
    IN  [year |-> y, month |-> m, date |-> d]

DayOf(t)      == t \div SecondsPerDay
TimeOfDay(t)  == t % SecondsPerDay
getHours(t)   == TimeOfDay(t) \div SecondsPerHour
getMinutes(t) == (TimeOfDay(t) % SecondsPerHour) \div SecondsPerMinute

\* Date.prototype.setHours(hour, minute, 0, 0): same day, seconds zeroed.
setHours(t, hour, minute) ==
    DayOf(t) * SecondsPerDay + hour * SecondsPerHour + minute * SecondsPerMinute

\* d.setDate(d.getDate() + n)
addDays(t, n) == t + n * SecondsPerDay

\* d.setMonth(d.getMonth() + 1): the date is kept and overflows into the
\* following month when the next month is shorter (Jan 31 -> Mar 2 or 3).
addMonth(t) ==
    LET c  == CivilFromDays(DayOf(t))
        y  == IF c.month = 12 THEN c.year + 1 ELSE c.year
        m  == IF c.month = 12 THEN 1 ELSE c.month + 1
    IN  DaysFromCivil(y, m, 1) * SecondsPerDay
          + (c.date - 1) * SecondsPerDay + TimeOfDay(t)

\* ------------------------------------------------------------------ inputs
\* The clock at the start of a run: 2024-01-31T09:59:57Z.
T0 == DaysFromCivil(2024, 1, 31) * SecondsPerDay + 9 * SecondsPerHour
        + 59 * SecondsPerMinute + 57

Recurrences == {"none", "daily", "weekly", "monthly"}

\* ScheduledMessageInsert values handed to scheduleMessage and
\* updateScheduledMessage.  Overdue is due since 10:00:00 of the day before
\* T0, so today's occurrence of its time of day is 3 seconds after T0;
\* Ahead is VeryNear seconds after T0: deferred when armed at T0, inside the
\* near-immediate window when armed later.  Every recurrence occurs, and
\* each scheduledTime occurs with and without one.
Overdue(r) == [contactId |-> 1, content |-> "a", mediaUrls |-> <<>>,
               scheduledTime |-> T0 + 3 - SecondsPerDay, recurring |-> r]
Ahead(r)   == [contactId |-> 2, content |-> "b", mediaUrls |-> <<"m">>,
               scheduledTime |-> T0 + VeryNear, recurring |-> r]

Inputs == {Overdue("none"), Overdue("daily"),
           Ahead("none"), Ahead("weekly"), Ahead("monthly")}

Ids == 1..MaxRecords

NoMessage == [id |-> -1]

\* ------------------------------------------------------------------- state
VARIABLES
    now,        \* the clock (new Date())
    proc,       \* "up" | "init" (initializeScheduler awaiting findMany) | "down"
    store,      \* scheduled_messages table: sequence of rows, id = index (serial)
    initRows,   \* rows findMany returned to initializeScheduler
    jobsMap,    \* keys of scheduledJobsMap
    timers,     \* bag of armed callbacks: setTimeout handles and node-schedule Jobs
    tasks,      \* bag of running execute-path callbacks, each at an await
    ops,        \* API calls in flight, each at an await
    calls,      \* API calls issued so far
    crashes,    \* crashes so far
    faults,     \* rejected storage calls so far
    sendCount,  \* id -> number of sendMessage invocations (history)
    issued,     \* bag of ids returned by scheduleMessage or inserted by recurrence (history)
    hist,       \* <<what, id>> pairs: things that have happened to an id (history)
    last        \* the step just taken (history)

vars == <<now, proc, store, initRows, jobsMap, timers, tasks, ops, calls,
          crashes, faults, sendCount, issued, hist, last>>

Event(act, id, row, was) == [act |-> act, id |-> id, row |-> row, was |-> was]

\* ----------------------------------------------------------------- storage
\* storage.insertScheduledMessage: the row the database returns; a recurring
\* left out ("") takes the column default, and so it does in the local
\* object built when the insert is rejected (`recurring || 'none'`).
insertScheduledMessage(st, data, t) ==
    [id |-> Len(st) + 1, contactId |-> data.contactId, content |-> data.content,
     mediaUrls |-> data.mediaUrls, scheduledTime |-> data.scheduledTime,
     recurring |-> IF data.recurring = "" THEN "none" ELSE data.recurring,
     status |-> "pending", createdAt |-> t]

\* The row is written back from defaults: status set, content emptied.
setStatusReplace(st, id, status) ==
    IF id \in DOMAIN st
    THEN [st EXCEPT ![id].status = status, ![id].content = ""] ELSE st

\* storage.updateScheduledMessage(id, {status}): no row matches an absent id.
setStatus(st, id, status) ==
    IF id \in DOMAIN st THEN [st EXCEPT ![id].status = status] ELSE st

\* storage.updateScheduledMessage(id, {...messageData, status: 'pending'})
setFields(st, id, data) ==
    [st EXCEPT ![id] =
        [@ EXCEPT !.contactId = data.contactId, !.content = data.content,
                  !.mediaUrls = data.mediaUrls,
                  !.scheduledTime = data.scheduledTime,
                  !.recurring = data.recurring, !.status = "pending"]]

\* The query without its where clause: every row of the table.
allRows(st, i) == SubSeq(st, i, Len(st))

\* db.query.scheduledMessages.findMany({where: status = 'pending'})
RECURSIVE pendingRows(_, _)
pendingRows(st, i) ==
    IF i > Len(st) THEN <<>>
    ELSE (IF st[i].status = "pending" THEN <<st[i]>> ELSE <<>>)
            \o pendingRows(st, i + 1)

\* ------------------------------------------------------------------ timers
BagAdd(b, x)    == b (+) SetToBag({x})
BagRemove(b, x) == b (-) SetToBag({x})
\* The entries of bag b that lie in set S.
BagKeep(b, S) == [x \in DOMAIN b \cap S |-> b[x]]

\* scheduledJobsMap.set(id, job): an earlier Job under the same key stays
\* armed but is no longer reachable through the map.
mapSet(tm, id, job) ==
    LET orphan(x) == IF x.mapped /\ x.message.id = id
                     THEN [x EXCEPT !.mapped = FALSE] ELSE x
    IN  BagAdd(BagOfAll(orphan, tm), job)

\* A toggle: the key is put in the map when it is not there.
cancelJobToggle(tm, jm, id) ==
    IF id \in jm
    THEN [timers |-> BagKeep(tm, {x \in DOMAIN tm : ~(x.mapped /\ x.message.id = id)}),
          jobs   |-> jm \ {id}]
    ELSE [timers |-> tm, jobs |-> jm \cup {id}]

\* if (scheduledJobsMap.has(id)) { job.cancel(); scheduledJobsMap.delete(id) }
cancelJob(tm, jm, id) ==
    IF id \in jm
    THEN [timers |-> BagKeep(tm, {x \in DOMAIN tm : ~(x.mapped /\ x.message.id = id)}),
          jobs   |-> jm \ {id}]
    ELSE [timers |-> tm, jobs |-> jm]

isInPast(message, t)   == message.scheduledTime < t

\* A window of no width: only a scheduledTime already past counts.
isVeryNearNoWindow(message, t) == message.scheduledTime - t < 0

isVeryNear(message, t) == message.scheduledTime - t < VeryNear

\* The deferred Job is armed and never put in the map.
scheduleMessageJobUnmapped(tm, jm, message, t) ==
    IF isInPast(message, t) \/ isVeryNear(message, t)
    THEN [timers |-> BagAdd(tm, [kind |-> "timeout", message |-> message,
                                 fireAt |-> t + ImmediateDelay, mapped |-> FALSE]),
          jobs   |-> jm]
    ELSE [timers |-> BagAdd(tm, [kind |-> "job", message |-> message,
                                 fireAt |-> message.scheduledTime, mapped |-> FALSE]),
          jobs   |-> jm]

\* Records without a row in the table are not armed.
scheduleMessageJobStored(tm, jm, message, t) ==
    IF message.id = TransientId THEN [timers |-> tm, jobs |-> jm]
    ELSE IF isInPast(message, t) \/ isVeryNear(message, t)
    THEN [timers |-> BagAdd(tm, [kind |-> "timeout", message |-> message,
                                 fireAt |-> t + ImmediateDelay, mapped |-> FALSE]),
          jobs   |-> jm]
    ELSE [timers |-> mapSet(tm, message.id,
                            [kind |-> "job", message |-> message,
                             fireAt |-> message.scheduledTime, mapped |-> TRUE]),
          jobs   |-> jm \cup {message.id}]

\* scheduleMessageJob(message) run at instant t.
scheduleMessageJob(tm, jm, message, t) ==
    IF isInPast(message, t) \/ isVeryNear(message, t)
    THEN [timers |-> BagAdd(tm, [kind |-> "timeout", message |-> message,
                                 fireAt |-> t + ImmediateDelay, mapped |-> FALSE]),
          jobs   |-> jm]
    ELSE [timers |-> mapSet(tm, message.id,
                            [kind |-> "job", message |-> message,
                             fireAt |-> message.scheduledTime, mapped |-> TRUE]),
          jobs   |-> jm \cup {message.id}]

\* A loop that leaves after its first iteration.
scheduleFirst(tm, jm, rows, t) ==
    IF rows = <<>> THEN [timers |-> tm, jobs |-> jm]
    ELSE scheduleMessageJob(tm, jm, Head(rows), t)

\* for (const message of messages) scheduleMessageJob(message)
RECURSIVE scheduleAll(_, _, _, _)
scheduleAll(tm, jm, rows, t) ==
    IF rows = <<>> THEN [timers |-> tm, jobs |-> jm]
    ELSE LET r == scheduleMessageJob(tm, jm, Head(rows), t)
         IN  scheduleAll(r.timers, r.jobs, Tail(rows), t)

\* -------------------------------------------------------------- recurrence
\* nextScheduledTime of scheduleRecurringMessage run at instant t; -1 when
\* the switch falls to `default: return`.
nextScheduledTime(message, t) ==
    IF message.scheduledTime < t
    THEN LET anchored == setHours(t, getHours(message.scheduledTime),
                                  getMinutes(message.scheduledTime))
         IN  IF anchored < t THEN addDays(anchored, 1) ELSE anchored
    ELSE CASE message.recurring = "daily"   -> addDays(message.scheduledTime, 1)
           [] message.recurring = "weekly"  -> addDays(message.scheduledTime, 7)
           [] message.recurring = "monthly" -> addMonth(message.scheduledTime)
           [] OTHER -> -1

\* if (message.recurring && message.recurring !== 'none')
isRecurring(message) == message.recurring # "none"

\* scheduledJobsMap.delete(id): a Job stored under the key since stays armed.
mapDelete(tm, jm, id) ==
    LET orphan(x) == IF x.mapped /\ x.message.id = id
                     THEN [x EXCEPT !.mapped = FALSE] ELSE x
    IN  [timers |-> BagOfAll(orphan, tm), jobs |-> jm \ {id}]

\* -------------------------------------------------------------------- Init
Init ==
    /\ now = T0
    /\ proc = "up"
    /\ store = <<>>
    /\ initRows = <<>>
    /\ jobsMap = {}
    /\ timers = EmptyBag
    /\ tasks = EmptyBag
    /\ ops = {}
    /\ calls = 0
    /\ crashes = 0
    /\ faults = 0
    /\ sendCount = [i \in 0..MaxRecords |-> 0]
    /\ issued = EmptyBag
    /\ hist = {}
    /\ last = Event("init", -1, NoMessage, "")

\* ---------------------------------------------------------- scheduleMessage
\* scheduleMessage up to the end of `await storage.insertScheduledMessage`:
\* the recipient check changes nothing; a failed insert yields the local
\* object with id 0.  `marks` is what the caller knows about the request
\* (history only).
ScheduleCall(data, dbOk, marks) ==
    /\ dbOk \/ faults < MaxFaults
    /\ proc = "up"
    /\ calls < MaxCalls
    /\ dbOk => Len(store) < MaxRecords
    /\ LET row == IF dbOk THEN insertScheduledMessage(store, data, now)
                  ELSE [insertScheduledMessage(store, data, now)
                            EXCEPT !.id = TransientId]
       IN  /\ store' = IF dbOk THEN Append(store, row) ELSE store
           /\ ops' = ops \cup {[cid |-> calls + 1, kind |-> "schedule", id |-> row.id,
                                data |-> data, row |-> row, was |-> "",
                                pc |-> "inserted"]}
           /\ hist' = hist \cup {<<m, row.id>> : m \in marks}
           /\ last' = Event("scheduleInsert", row.id, row, "")
    /\ calls' = calls + 1
    /\ faults' = IF dbOk THEN faults ELSE faults + 1
    /\ UNCHANGED <<now, proc, initRows, jobsMap, timers, tasks, crashes,
                   sendCount, issued>>

ScheduleMessage(data, dbOk) == ScheduleCall(data, dbOk, {})

\* ------------------------------------------- scheduleMessage: recipient check
\* What getContacts() and getGroups() answer: the lengths of the two lists,
\* or a rejection (ok = FALSE).
Directories ==
    {[contacts |-> 2, groups |-> 2, ok |-> TRUE],
     [contacts |-> 1, groups |-> 1, ok |-> TRUE],
     [contacts |-> 0, groups |-> 0, ok |-> FALSE]}

\* Messages to a contact and to a group (contactId >= GroupIdBase).
CheckedInputs ==
    {Overdue("daily"), Ahead("none"),
     [Ahead("none") EXCEPT !.contactId = GroupIdBase + 1]}

\* contactExists: a group id is an index into the groups, counted from
\* GroupIdBase; a contact id is an index into the contacts.
contactExists(contactId, dir) ==
    IF contactId >= GroupIdBase
    THEN LET groupIndex == contactId - GroupIdBase
         IN  groupIndex >= 0 /\ groupIndex < dir.groups
    ELSE contactId < dir.contacts

\* The outcome of the inner try block: the lookup raised, or the recipient
\* was found or not.
checkRecipient(contactId, dir) ==
    IF ~dir.ok THEN "raised"
    ELSE IF contactExists(contactId, dir) THEN "found" ELSE "notFound"

\* Only a recipient that was found lets the call go on.
goesOnIfFound(outcome) == outcome = "found"

\* The inner catch block logs the error thrown for a missing recipient, or
\* raised by the lookup, and scheduleMessage goes on.
goesOn(outcome) == outcome \in {"found", "notFound", "raised"}

\* scheduleMessage from its call up to the end of the insert, the lookup
\* answering `dir`; the outcome of the check is noted (history only).
ScheduleChecked(data, dir) ==
    LET outcome == checkRecipient(data.contactId, dir)
    IN  IF goesOn(outcome)
        THEN ScheduleCall(data, TRUE, {outcome})
        ELSE /\ proc = "up"
             /\ calls < MaxCalls
             /\ calls' = calls + 1
             /\ last' = Event("scheduleThrows", -1, NoMessage, outcome)
             /\ UNCHANGED <<now, store, initRows, jobsMap, timers, tasks, ops,
                            crashes, faults, sendCount, issued, hist, proc>>

\* ------------------------------------------------ POST /api/messages/schedule
\* Request bodies.  A field the body leaves out is written as the value of
\* its type that JavaScript's `!` treats like undefined: 0 for contactId and
\* scheduledTime, "" for content and recurring.
Complete == [contactId |-> 1, content |-> "a", mediaUrls |-> <<>>,
             scheduledTime |-> T0 + VeryNear, recurring |-> "daily"]

Requests ==
    {Complete,
     [Complete EXCEPT !.contactId = 0],
     [Complete EXCEPT !.content = ""],
     [Complete EXCEPT !.scheduledTime = 0],
     [Complete EXCEPT !.scheduledTime = 0, !.recurring = "hourly"],
     [Complete EXCEPT !.recurring = "hourly"],
     [Complete EXCEPT !.recurring = ""]}

\* Only the recipient is required.
missingRecipient(body) ==
    IF body.contactId = 0 THEN "contactId" ELSE ""

\* if (!contactId) return 400; if (!content) return 400: the field whose
\* absence rejects the request, "" when none does.
missingField(body) ==
    IF body.contactId = 0 THEN "contactId"
    ELSE IF body.content = "" THEN "content"
    ELSE ""

\* The recurring of the body goes through as it is.
keptRecurring(r) == r

\* A recurring that is present and not one of the four names becomes 'none'.
validRecurring(r) ==
    IF r # "" /\ r \notin Recurrences THEN "none" ELSE r

\* The body as the route hands it to scheduleMessage at instant t.
validated(body, t) ==
    [body EXCEPT !.scheduledTime = IF @ = 0 THEN t ELSE @,
                 !.recurring = validRecurring(@)]

\* What the route knows about the body (history only).
marksOf(body) ==
    (IF body.scheduledTime = 0 THEN {"noTime"} ELSE {})
        \cup (IF body.recurring \notin Recurrences \cup {""}
              THEN {"badRecurring"} ELSE {})

\* The handler up to the end of scheduleMessage's insert: 401 when the
\* client is not ready, 400 when a required field is missing, else
\* scheduleMessage(validated body).
PostSchedule(body, ready) ==
    IF ready /\ missingField(body) = ""
    THEN ScheduleCall(validated(body, now), TRUE, marksOf(body))
    ELSE /\ proc = "up"
         /\ calls < MaxCalls
         /\ calls' = calls + 1
         /\ last' = Event(IF ready THEN "badRequest" ELSE "notReady", -1,
                          NoMessage, missingField(body))
         /\ UNCHANGED <<now, store, initRows, jobsMap, timers, tasks, ops,
                        crashes, faults, sendCount, issued, hist, proc>>

\* scheduleMessage after the insert: scheduleMessageJob, return the record.
ScheduleMessageReturn(op) ==
    /\ op \in ops /\ op.kind = "schedule" /\ op.pc = "inserted"
    /\ LET r == scheduleMessageJob(timers, jobsMap, op.row, now)
       IN  timers' = r.timers /\ jobsMap' = r.jobs
    /\ ops' = ops \ {op}
    /\ issued' = BagAdd(issued, op.row.id)
    /\ last' = Event("scheduleReturn", op.row.id, op.row, "")
    /\ UNCHANGED <<now, proc, store, initRows, tasks, calls, crashes, sendCount, faults, hist>>

\* ---------------------------------------------------- updateScheduledMessage
\* `await storage.getScheduledMessageById(id)`: null for an unknown id, a
\* thrown error when the query fails.
UpdateGet(id, data, dbOk) ==
    /\ dbOk \/ faults < MaxFaults
    /\ proc = "up"
    /\ calls < MaxCalls
    /\ calls' = calls + 1
    /\ IF dbOk /\ id \in DOMAIN store
       THEN /\ ops' = ops \cup {[cid |-> calls + 1, kind |-> "update", id |-> id,
                                 data |-> data, row |-> store[id],
                                 was |-> store[id].status, pc |-> "got"]}
            /\ last' = Event("updateGet", id, store[id], store[id].status)
       ELSE /\ ops' = ops
            /\ last' = Event(IF dbOk THEN "updateNotFound" ELSE "updateThrows",
                             id, NoMessage, "")
    /\ faults' = IF dbOk THEN faults ELSE faults + 1
    /\ UNCHANGED <<now, proc, store, initRows, jobsMap, timers, tasks, crashes,
                   sendCount, issued, hist>>

\* `await storage.updateScheduledMessage(id, {...messageData, status: 'pending'})`
UpdateWrite(op, dbOk) ==
    /\ dbOk \/ faults < MaxFaults
    /\ op \in ops /\ op.kind = "update" /\ op.pc = "got"
    /\ IF dbOk
       THEN /\ store' = setFields(store, op.id, op.data)
            /\ ops' = (ops \ {op}) \cup
                        {[op EXCEPT !.pc = "written", !.row = store'[op.id]]}
            /\ last' = Event("updateWrite", op.id, store'[op.id], op.was)
       ELSE /\ store' = store
            /\ ops' = ops \ {op}
            /\ last' = Event("updateThrows", op.id, NoMessage, op.was)
    /\ faults' = IF dbOk THEN faults ELSE faults + 1
    /\ UNCHANGED <<now, proc, initRows, jobsMap, timers, tasks, calls, crashes,
                   sendCount, issued, hist>>

\* Cancel the job found in the map, scheduleMessageJob(updatedMessage), return.
UpdateReturn(op) ==
    /\ op \in ops /\ op.kind = "update" /\ op.pc = "written"
    /\ LET c == cancelJob(timers, jobsMap, op.id)
           r == scheduleMessageJob(c.timers, c.jobs, op.row, now)
       IN  timers' = r.timers /\ jobsMap' = r.jobs
    /\ ops' = ops \ {op}
    /\ hist' = IF op.was = "pending" THEN hist \cup {<<"updateDone", op.id>>} ELSE hist
    /\ last' = Event("updateReturn", op.id, op.row, op.was)
    /\ UNCHANGED <<now, proc, store, initRows, tasks, calls, crashes, sendCount,
                   issued, faults>>

\* ---------------------------------------------------- cancelScheduledMessage
\* An unknown id raises instead of yielding null.
CancelGetRaises(id, dbOk) ==
    /\ dbOk \/ faults < MaxFaults
    /\ proc = "up"
    /\ calls < MaxCalls
    /\ calls' = calls + 1
    /\ IF dbOk /\ id \in DOMAIN store
       THEN /\ ops' = ops \cup {[cid |-> calls + 1, kind |-> "cancel", id |-> id,
                                 data |-> NoMessage, row |-> store[id],
                                 was |-> store[id].status, pc |-> "got"]}
            /\ last' = Event("cancelGet", id, store[id], store[id].status)
       ELSE /\ ops' = ops
            /\ last' = Event("cancelThrows", id, NoMessage, "")
    /\ faults' = IF dbOk THEN faults ELSE faults + 1
    /\ UNCHANGED <<now, proc, store, initRows, jobsMap, timers, tasks, crashes,
                   sendCount, issued, hist>>

\* `await storage.getScheduledMessageById(id)`, as in updateScheduledMessage.
CancelGet(id, dbOk) ==
    /\ dbOk \/ faults < MaxFaults
    /\ proc = "up"
    /\ calls < MaxCalls
    /\ calls' = calls + 1
    /\ IF dbOk /\ id \in DOMAIN store
       THEN /\ ops' = ops \cup {[cid |-> calls + 1, kind |-> "cancel", id |-> id,
                                 data |-> NoMessage, row |-> store[id],
                                 was |-> store[id].status, pc |-> "got"]}
            /\ last' = Event("cancelGet", id, store[id], store[id].status)
       ELSE /\ ops' = ops
            /\ last' = Event(IF dbOk THEN "cancelNotFound" ELSE "cancelThrows",
                             id, NoMessage, "")
    /\ faults' = IF dbOk THEN faults ELSE faults + 1
    /\ UNCHANGED <<now, proc, store, initRows, jobsMap, timers, tasks, crashes,
                   sendCount, issued, hist>>

\* `await storage.updateScheduledMessage(id, {status: 'canceled'})`
CancelWrite(op, dbOk) ==
    /\ dbOk \/ faults < MaxFaults
    /\ op \in ops /\ op.kind = "cancel" /\ op.pc = "got"
    /\ IF dbOk
       THEN /\ store' = setStatus(store, op.id, "canceled")
            /\ ops' = (ops \ {op}) \cup
                        {[op EXCEPT !.pc = "written", !.row = store'[op.id]]}
            /\ last' = Event("cancelWrite", op.id, store'[op.id], op.was)
       ELSE /\ store' = store
            /\ ops' = ops \ {op}
            /\ last' = Event("cancelThrows", op.id, NoMessage, op.was)
    /\ faults' = IF dbOk THEN faults ELSE faults + 1
    /\ UNCHANGED <<now, proc, initRows, jobsMap, timers, tasks, calls, crashes,
                   sendCount, issued, hist>>

\* Cancel the job found in the map, return the canceled record.
CancelReturn(op) ==
    /\ op \in ops /\ op.kind = "cancel" /\ op.pc = "written"
    /\ LET c == cancelJob(timers, jobsMap, op.id)
       IN  timers' = c.timers /\ jobsMap' = c.jobs
    /\ ops' = ops \ {op}
    /\ hist' = IF op.was = "pending" THEN hist \cup {<<"cancelDone", op.id>>} ELSE hist
    /\ last' = Event("cancelReturn", op.id, op.row, op.was)
    /\ UNCHANGED <<now, proc, store, initRows, tasks, calls, crashes, sendCount,
                   issued, faults>>

\* ------------------------------------------------------------ execute path
Bump(f, id) == [f EXCEPT ![id] = @ + 1]

\* The updateScheduledMessage calls for this id that are at an await.
UpdatesOf(id) == {op \in ops : op.kind = "update" /\ op.id = id}

\* Callbacks run one at a time: none starts while another is in progress.
FireSerial(tm) ==
    /\ tasks = EmptyBag
    /\ proc = "up"
    /\ BagIn(tm, timers)
    /\ now >= tm.fireAt
    /\ timers' = BagRemove(timers, tm)
    /\ tasks' = BagAdd(tasks, [kind |-> tm.kind, message |-> tm.message,
                               pc |-> "sending", next |-> NoMessage])
    /\ sendCount' = Bump(sendCount, tm.message.id)
    /\ hist' = hist \cup {<<"firedInUpdate", op.id>> : op \in UpdatesOf(tm.message.id)}
    /\ last' = Event("fire", tm.message.id, tm.message, tm.kind)
    /\ UNCHANGED <<now, proc, store, initRows, jobsMap, ops, calls, crashes, issued, faults>>

\* The callback stays armed after it has run, like a recurrence rule.
FireRepeats(tm) ==
    /\ proc = "up"
    /\ BagIn(tm, timers)
    /\ now >= tm.fireAt
    /\ timers' = timers
    /\ tasks' = BagAdd(tasks, [kind |-> tm.kind, message |-> tm.message,
                               pc |-> "sending", next |-> NoMessage])
    /\ sendCount' = Bump(sendCount, tm.message.id)
    /\ hist' = hist \cup {<<"firedInUpdate", op.id>> : op \in UpdatesOf(tm.message.id)}
    /\ last' = Event("fire", tm.message.id, tm.message, tm.kind)
    /\ UNCHANGED <<now, proc, store, initRows, jobsMap, ops, calls, crashes, issued, faults>>

\* An armed callback is invoked (setTimeout after ImmediateDelay, or the Job
\* at its date) and runs up to `await sendMessage(...)`.  A fired Job leaves
\* its key in scheduledJobsMap.  That an updateScheduledMessage call for the
\* id was at an await is noted (history only).
Fire(tm) ==
    /\ proc = "up"
    /\ BagIn(tm, timers)
    /\ now >= tm.fireAt
    /\ timers' = BagRemove(timers, tm)
    /\ tasks' = BagAdd(tasks, [kind |-> tm.kind, message |-> tm.message,
                               pc |-> "sending", next |-> NoMessage])
    /\ sendCount' = Bump(sendCount, tm.message.id)
    /\ hist' = hist \cup {<<"firedInUpdate", op.id>> : op \in UpdatesOf(tm.message.id)}
    /\ last' = Event("fire", tm.message.id, tm.message, tm.kind)
    /\ UNCHANGED <<now, proc, store, initRows, jobsMap, ops, calls, crashes, issued, faults>>

\* sendMessage settles.  Resolved: `await storage.updateScheduledMessage(id,
\* {status: 'sent'})`, which may itself reject.  Rejected: the catch block's
\* `await storage.updateScheduledMessage(id, {status: 'failed'})`, after
\* which the callback has nothing left to do.
SendReturns(task, sendOk, dbOk) ==
    /\ dbOk \/ faults < MaxFaults
    /\ BagIn(task, tasks) /\ task.pc = "sending"
    /\ IF sendOk
       THEN /\ store' = IF dbOk THEN setStatus(store, task.message.id, "sent")
                        ELSE store
            /\ tasks' = BagAdd(BagRemove(tasks, task),
                          [task EXCEPT !.pc = IF dbOk THEN "sentWritten"
                                              ELSE "caught"])
            /\ last' = Event(IF dbOk THEN "sent" ELSE "sentWriteFails",
                             task.message.id, task.message, task.kind)
       ELSE /\ store' = IF dbOk THEN setStatus(store, task.message.id, "failed")
                        ELSE store
            /\ tasks' = BagRemove(tasks, task)
            /\ last' = Event(IF dbOk THEN "failed" ELSE "failedWriteFails",
                             task.message.id, task.message, task.kind)
    /\ hist' = hist \cup {<<IF sendOk THEN "sendOk" ELSE "sendFailed", task.message.id>>}
    /\ faults' = IF dbOk THEN faults ELSE faults + 1
    /\ UNCHANGED <<now, proc, initRows, jobsMap, timers, ops, calls, crashes,
                   sendCount, issued>>

\* The catch block entered from a rejected storage write inside the try.
Caught(task, dbOk) ==
    /\ dbOk \/ faults < MaxFaults
    /\ BagIn(task, tasks) /\ task.pc = "caught"
    /\ store' = IF dbOk THEN setStatus(store, task.message.id, "failed") ELSE store
    /\ tasks' = BagRemove(tasks, task)
    /\ last' = Event(IF dbOk THEN "failed" ELSE "failedWriteFails",
                     task.message.id, task.message, task.kind)
    /\ faults' = IF dbOk THEN faults ELSE faults + 1
    /\ UNCHANGED <<now, proc, initRows, jobsMap, timers, ops, calls, crashes,
                   sendCount, issued, hist>>

\* The end of a callback: the Job callback deletes its key from the map on
\* the success path, the setTimeout callback has no bookkeeping.
finish(tm, jm, task) ==
    IF task.kind = "job" THEN mapDelete(tm, jm, task.message.id)
    ELSE [timers |-> tm, jobs |-> jm]

\* The rejection of the successor's insert leaves scheduleRecurringMessage
\* and reaches the catch block of the callback.
AfterSentRethrows(task, dbOk) ==
    /\ dbOk \/ faults < MaxFaults
    /\ BagIn(task, tasks) /\ task.pc = "sentWritten"
    /\ LET nst    == nextScheduledTime(task.message, now)
           insert == isRecurring(task.message) /\ nst # -1
           row    == insertScheduledMessage(store,
                        [task.message EXCEPT !.scheduledTime = nst], now)
           f      == finish(timers, jobsMap, task)
       IN  IF insert /\ dbOk
           THEN /\ Len(store) < MaxRecords
                /\ store' = Append(store, row)
                /\ tasks' = BagAdd(BagRemove(tasks, task),
                              [task EXCEPT !.pc = "inserted", !.next = row])
                /\ issued' = BagAdd(issued, row.id)
                /\ last' = Event("successor", task.message.id, row, task.kind)
                /\ hist' = hist \cup {<<"successor", task.message.id>>}
                /\ UNCHANGED <<timers, jobsMap>>
           ELSE /\ insert \/ dbOk
                /\ store' = store
                /\ tasks' = IF insert
                            THEN BagAdd(BagRemove(tasks, task),
                                        [task EXCEPT !.pc = "caught"])
                            ELSE BagRemove(tasks, task)
                /\ timers' = IF insert THEN timers ELSE f.timers
                /\ jobsMap' = IF insert THEN jobsMap ELSE f.jobs
                /\ issued' = issued
                /\ hist' = IF insert
                           THEN hist \cup {<<"successorFails", task.message.id>>}
                           ELSE hist
                /\ last' = Event(IF insert THEN "successorFails" ELSE "done",
                                 task.message.id, task.message, task.kind)
    /\ faults' = IF dbOk THEN faults ELSE faults + 1
    /\ UNCHANGED <<now, proc, initRows, ops, calls, crashes, sendCount>>

\* After status 'sent' is written: a non-recurring message ends the callback;
\* a recurring one enters scheduleRecurringMessage up to the end of
\* `await storage.insertScheduledMessage`, whose rejection is swallowed there
\* (noted in the history).
AfterSent(task, dbOk) ==
    /\ dbOk \/ faults < MaxFaults
    /\ BagIn(task, tasks) /\ task.pc = "sentWritten"
    /\ LET nst    == nextScheduledTime(task.message, now)
           insert == isRecurring(task.message) /\ nst # -1
           row    == insertScheduledMessage(store,
                        [task.message EXCEPT !.scheduledTime = nst], now)
           f      == finish(timers, jobsMap, task)
       IN  IF insert /\ dbOk
           THEN /\ Len(store) < MaxRecords
                /\ store' = Append(store, row)
                /\ tasks' = BagAdd(BagRemove(tasks, task),
                              [task EXCEPT !.pc = "inserted", !.next = row])
                /\ issued' = BagAdd(issued, row.id)
                /\ last' = Event("successor", task.message.id, row, task.kind)
                /\ hist' = hist \cup {<<"successor", task.message.id>>}
                /\ UNCHANGED <<timers, jobsMap>>
           ELSE /\ insert \/ dbOk
                /\ store' = store
                /\ tasks' = BagRemove(tasks, task)
                /\ timers' = f.timers /\ jobsMap' = f.jobs
                /\ issued' = issued
                /\ hist' = IF insert
                           THEN hist \cup {<<"successorFails", task.message.id>>}
                           ELSE hist
                /\ last' = Event(IF insert THEN "successorFails" ELSE "done",
                                 task.message.id, task.message, task.kind)
    /\ faults' = IF dbOk THEN faults ELSE faults + 1
    /\ UNCHANGED <<now, proc, initRows, ops, calls, crashes, sendCount>>

\* scheduleRecurringMessage after the insert: scheduleMessageJob(successor);
\* then the callback ends.
AfterInsert(task) ==
    /\ BagIn(task, tasks) /\ task.pc = "inserted"
    /\ LET r == scheduleMessageJob(timers, jobsMap, task.next, now)
           f == finish(r.timers, r.jobs, task)
       IN  timers' = f.timers /\ jobsMap' = f.jobs
    /\ tasks' = BagRemove(tasks, task)
    /\ last' = Event("successorArmed", task.message.id, task.next, task.kind)
    /\ UNCHANGED <<now, proc, store, initRows, ops, calls, crashes, sendCount,
                   issued, faults, hist>>

\* ------------------------------------------------------- process and clock
\* The process dies: everything held in memory is lost, the table survives.
Crash ==
    /\ proc # "down"
    /\ crashes < MaxCrashes
    /\ crashes' = crashes + 1
    /\ proc' = "down"
    /\ initRows' = <<>>
    /\ jobsMap' = {}
    /\ timers' = EmptyBag
    /\ tasks' = EmptyBag
    /\ ops' = {}
    /\ last' = Event("crash", -1, NoMessage, "")
    /\ UNCHANGED <<now, store, calls, sendCount, issued, faults, hist>>

\* The marks of the rows a failed startup query has left unarmed.
Missed == {<<"missedAtStart", i>> : i \in Ids}

\* A rejected query falls back on reading the table without the filter
\* failing: the pending rows are armed all the same.
StartFallsBack(dbOk) ==
    /\ dbOk \/ faults < MaxFaults
    /\ proc = "down"
    /\ proc' = "init"
    /\ initRows' = pendingRows(store, 1)
    /\ hist' = IF dbOk
               THEN (hist \ Missed) \cup {<<"settledAtStart", id>> :
                        id \in {i \in DOMAIN store : store[i].status # "pending"}}
               ELSE hist \cup {<<"missedAtStart", id>> :
                        id \in {i \in DOMAIN store : store[i].status = "pending"}}
    /\ last' = Event(IF dbOk THEN "startQuery" ELSE "startQueryFails",
                     -1, NoMessage, "")
    /\ faults' = IF dbOk THEN faults ELSE faults + 1
    /\ UNCHANGED <<now, store, jobsMap, timers, tasks, ops, calls, crashes,
                   sendCount, issued>>

\* Process start: initializeScheduler up to the end of `await findMany`; a
\* rejected query is caught and nothing is armed.  Noted (history only):
\* when the query succeeds, the ids whose row it finds not pending; when it
\* is rejected, the ids whose row is pending, until a query succeeds.
Start(dbOk) ==
    /\ dbOk \/ faults < MaxFaults
    /\ proc = "down"
    /\ proc' = "init"
    /\ initRows' = IF dbOk THEN pendingRows(store, 1) ELSE <<>>
    /\ hist' = IF dbOk
               THEN (hist \ Missed) \cup {<<"settledAtStart", id>> :
                        id \in {i \in DOMAIN store : store[i].status # "pending"}}
               ELSE hist \cup {<<"missedAtStart", id>> :
                        id \in {i \in DOMAIN store : store[i].status = "pending"}}
    /\ last' = Event(IF dbOk THEN "startQuery" ELSE "startQueryFails",
                     -1, NoMessage, "")
    /\ faults' = IF dbOk THEN faults ELSE faults + 1
    /\ UNCHANGED <<now, store, jobsMap, timers, tasks, ops, calls, crashes,
                   sendCount, issued>>

\* initializeScheduler after the query: one scheduleMessageJob per row.
initializeScheduler ==
    /\ proc = "init"
    /\ proc' = "up"
    /\ LET r == scheduleAll(timers, jobsMap, initRows, now)
       IN  timers' = r.timers /\ jobsMap' = r.jobs
    /\ initRows' = <<>>
    /\ last' = Event("initialized", -1, NoMessage, "")
    /\ UNCHANGED <<now, store, tasks, ops, calls, crashes, sendCount, issued, faults, hist>>

\* One second passes.
Tick ==
    /\ now < T0 + MaxTicks
    /\ now' = now + 1
    /\ last' = Event("tick", -1, NoMessage, "")
    /\ UNCHANGED <<proc, store, initRows, jobsMap, timers, tasks, ops, calls,
                   crashes, sendCount, issued, faults, hist>>

\* Time passes up to the earliest date an armed callback is waiting for.
Deadlines == {tm.fireAt : tm \in BagToSet(timers)}

AdvanceToTimer ==
    /\ \E d \in Deadlines : d > now
    /\ \A d \in Deadlines : d > now
    /\ now' = CHOOSE d \in Deadlines : \A e \in Deadlines : d <= e
    /\ last' = Event("advance", -1, NoMessage, "")
    /\ UNCHANGED <<proc, store, initRows, jobsMap, timers, tasks, ops, calls,
                   crashes, sendCount, issued, faults, hist>>

\* -------------------------------------------------------------------- Next
Scheduling ==
    \/ \E data \in Inputs : ScheduleMessage(data, TRUE)
    \/ \E op \in ops : ScheduleMessageReturn(op)

Updating ==
    \/ \E id \in Ids, data \in Inputs : UpdateGet(id, data, TRUE)
    \/ \E op \in ops : UpdateWrite(op, TRUE)
    \/ \E op \in ops : UpdateReturn(op)

Canceling ==
    \/ \E id \in Ids : CancelGet(id, TRUE)
    \/ \E op \in ops : CancelWrite(op, TRUE)
    \/ \E op \in ops : CancelReturn(op)

Executing ==
    \/ \E tm \in BagToSet(timers) : Fire(tm)
    \/ \E task \in BagToSet(tasks), sendOk \in BOOLEAN : SendReturns(task, sendOk, TRUE)
    \/ \E task \in BagToSet(tasks) : AfterSent(task, TRUE)
    \/ \E task \in BagToSet(tasks) : AfterInsert(task)

Restarting ==
    \/ Crash
    \/ Start(TRUE)
    \/ initializeScheduler

Clock ==
    \/ Tick
    \/ AdvanceToTimer

\* The program with a storage that never rejects a call: any API call at
\* any time, callbacks, crashes and restarts.
Next == Scheduling \/ Updating \/ Canceling \/ Executing \/ Restarting \/ Clock

Spec == Init /\ [][Next]_vars

\* Only scheduleMessage is called; the process may crash and restart.
NextRestart == Scheduling \/ Executing \/ Restarting \/ Clock

SpecRestart == Init /\ [][NextRestart]_vars

\* scheduleMessage is called while the storage may reject the insert.
InsertRejected == \E data \in Inputs : ScheduleMessage(data, FALSE)

NextInsertFault == Scheduling \/ InsertRejected \/ Executing \/ Clock

SpecInsertFault == Init /\ [][NextInsertFault]_vars

\* The event loop runs every callback that is due and every continuation
\* whose awaited call has settled; sendMessage and the storage settle; the
\* process is started again after a crash.
Progress ==
    /\ WF_vars(Executing)
    /\ WF_vars(AdvanceToTimer)
    /\ WF_vars(\E op \in ops : ScheduleMessageReturn(op))
    /\ WF_vars(Start(TRUE))
    /\ WF_vars(initializeScheduler)

\* Recovery under progress: scheduleMessage calls with an overdue recurring
\* message or a deferred one, callbacks, crashes and restarts; the clock
\* moves from deadline to deadline.
RecoveryInputs == {Overdue("daily"), Ahead("none"), Ahead("weekly")}

NextRecovery ==
    \/ \E data \in RecoveryInputs : ScheduleMessage(data, TRUE)
    \/ \E op \in ops : ScheduleMessageReturn(op)
    \/ Executing
    \/ Restarting
    \/ AdvanceToTimer

SpecRecovery == Init /\ [][NextRecovery]_vars /\ Progress

\* Arming under progress: as above, with updateScheduledMessage calls.
ArmingInputs == {Overdue("daily"), Ahead("none")}

NextArming ==
    \/ \E data \in ArmingInputs : ScheduleMessage(data, TRUE)
    \/ \E op \in ops : ScheduleMessageReturn(op)
    \/ \E id \in Ids, data \in ArmingInputs : UpdateGet(id, data, TRUE)
    \/ \E op \in ops : UpdateWrite(op, TRUE)
    \/ \E op \in ops : UpdateReturn(op)
    \/ Executing
    \/ Restarting
    \/ AdvanceToTimer

SpecArming ==
    /\ Init /\ [][NextArming]_vars /\ Progress
    /\ WF_vars(\E op \in ops : UpdateWrite(op, TRUE))
    /\ WF_vars(\E op \in ops : UpdateReturn(op))

\* The state in which scheduleMessage(data), called at T0 on the empty
\* table, has just returned and nothing else has happened; the API calls
\* counted from there are those issued afterwards.
Scheduled(data) ==
    LET row == insertScheduledMessage(<<>>, data, T0)
        r   == scheduleMessageJob(EmptyBag, {}, row, T0)
    IN  /\ now = T0
        /\ proc = "up"
        /\ store = <<row>>
        /\ initRows = <<>>
        /\ jobsMap = r.jobs
        /\ timers = r.timers
        /\ tasks = EmptyBag
        /\ ops = {}
        /\ calls = 0
        /\ crashes = 0
        /\ faults = 0
        /\ sendCount = [i \in 0..MaxRecords |-> 0]
        /\ issued = SetToBag({row.id})
        /\ hist = {}
        /\ last = Event("scheduleReturn", row.id, row, "")

InitScheduled == \E data \in Inputs : Scheduled(data)

\* One record is scheduled; cancelScheduledMessage is called up to MaxCalls
\* times while the callbacks run.
NextCancelAgain == Canceling \/ Executing \/ Clock

SpecCancelAgain == InitScheduled /\ [][NextCancelAgain]_vars

\* scheduleMessage is called while the storage may reject the insert, and
\* the process may crash and restart; the clock moves from deadline to
\* deadline.
NextTransient ==
    \/ \E data \in RecoveryInputs : ScheduleMessage(data, TRUE)
    \/ InsertRejected
    \/ \E op \in ops : ScheduleMessageReturn(op)
    \/ Executing
    \/ Restarting
    \/ AdvanceToTimer

SpecTransient == Init /\ [][NextTransient]_vars

\* Requests reach POST /api/messages/schedule while the callbacks run.
NextRoute ==
    \/ \E body \in Requests, ready \in BOOLEAN : PostSchedule(body, ready)
    \/ \E op \in ops : ScheduleMessageReturn(op)
    \/ Executing
    \/ Clock

SpecRoute == Init /\ [][NextRoute]_vars

\* Records are scheduled and canceled, never updated, and the process stays
\* up.
NextSingle == Scheduling \/ Canceling \/ Executing \/ Clock

SpecSingle == Init /\ [][NextSingle]_vars

\* Records are scheduled and canceled, never updated; the process may crash
\* and restart.
NextStartup == Scheduling \/ Canceling \/ Executing \/ Restarting \/ Clock

SpecStartup == Init /\ [][NextStartup]_vars

\* scheduleMessage calls and callbacks while the storage may reject the
\* writes and inserts of the callbacks (MaxFaults times).
NextStorageFault ==
    \/ Scheduling
    \/ \E tm \in BagToSet(timers) : Fire(tm)
    \/ \E task \in BagToSet(tasks), sendOk \in BOOLEAN, dbOk \in BOOLEAN :
          SendReturns(task, sendOk, dbOk)
    \/ \E task \in BagToSet(tasks), dbOk \in BOOLEAN : Caught(task, dbOk)
    \/ \E task \in BagToSet(tasks), dbOk \in BOOLEAN : AfterSent(task, dbOk)
    \/ \E task \in BagToSet(tasks) : AfterInsert(task)
    \/ Clock

SpecStorageFault == Init /\ [][NextStorageFault]_vars

\* The state in which scheduleMessage(a) and scheduleMessage(b), called at
\* T0 on the empty table, have returned and the process has then stopped
\* before any callback ran; crashes and API calls are counted from there.
\* The first record is the overdue recurring one.
Stopped(a, b) ==
    LET row1 == insertScheduledMessage(<<>>, a, T0)
        row2 == insertScheduledMessage(<<row1>>, b, T0)
    IN  /\ now = T0
        /\ proc = "down"
        /\ store = <<row1, row2>>
        /\ initRows = <<>>
        /\ jobsMap = {}
        /\ timers = EmptyBag
        /\ tasks = EmptyBag
        /\ ops = {}
        /\ calls = 0
        /\ crashes = 0
        /\ faults = 0
        /\ sendCount = [i \in 0..MaxRecords |-> 0]
        /\ issued = SetToBag({row1.id, row2.id})
        /\ hist = {}
        /\ last = Event("crash", -1, NoMessage, "")

InitStopped == \E b \in RecoveryInputs : Stopped(Overdue("daily"), b)

\* The process starts over a table of pending rows while the startup query
\* may be rejected; scheduleMessage calls, callbacks, a crash and another
\* start follow.
NextStartFault ==
    \/ Scheduling
    \/ Executing
    \/ Crash
    \/ \E dbOk \in BOOLEAN : Start(dbOk)
    \/ initializeScheduler
    \/ Clock

SpecStartFault == InitStopped /\ [][NextStartFault]_vars

\* scheduleMessage is called for contacts and groups that the lookup finds,
\* does not find, or fails to look up; the callbacks run.
NextRecipient ==
    \/ \E data \in CheckedInputs, dir \in Directories : ScheduleChecked(data, dir)
    \/ \E op \in ops : ScheduleMessageReturn(op)
    \/ Executing
    \/ Clock

SpecRecipient == Init /\ [][NextRecipient]_vars

\* The sendMessage call made for the first row of the table never settles.
Hangs(task) == task.message.id = 1

\* sendMessage settles for a callback whose call does not hang.
SendSettles(task, sendOk) == ~Hangs(task) /\ SendReturns(task, sendOk, TRUE)

\* scheduleMessage calls and callbacks, the send for the first row hanging
\* for ever; the event loop runs every other callback and continuation.
NextHung ==
    \/ \E data \in RecoveryInputs : ScheduleMessage(data, TRUE)
    \/ \E op \in ops : ScheduleMessageReturn(op)
    \/ \E tm \in BagToSet(timers) : Fire(tm)
    \/ \E task \in BagToSet(tasks), sendOk \in BOOLEAN : SendSettles(task, sendOk)
    \/ \E task \in BagToSet(tasks) : AfterSent(task, TRUE)
    \/ \E task \in BagToSet(tasks) : AfterInsert(task)
    \/ AdvanceToTimer

SpecHung ==
    /\ Init /\ [][NextHung]_vars
    /\ WF_vars(\E op \in ops : ScheduleMessageReturn(op))
    /\ WF_vars(\E tm \in BagToSet(timers) : Fire(tm))
    /\ WF_vars(\E task \in BagToSet(tasks), sendOk \in BOOLEAN : SendSettles(task, sendOk))
    /\ WF_vars(\E task \in BagToSet(tasks) : AfterSent(task, TRUE))
    /\ WF_vars(\E task \in BagToSet(tasks) : AfterInsert(task))
    /\ WF_vars(AdvanceToTimer)

\* --------------------------------------------------------- state functions
Terminal == {"sent", "failed", "canceled", "expired"}

ForId(b, id) == BagKeep(b, {x \in DOMAIN b : x.message.id = id})

\* Armed callbacks (setTimeout handles and Jobs) holding a message of this id.
ArmedFor(id) == BagCardinality(ForId(timers, id))

\* Callbacks of this id that have started and not finished.
RunningFor(id) == BagCardinality(ForId(tasks, id))

\* ------------------------------------------------------------------ claims
\* C1: Transport.send is invoked at most once per persisted record id, over any
\* sequence of scheduleMessage calls, timer firings, crashes and restarts.
C1_SentAtMostOnce == \A id \in DOMAIN store : sendCount[id] <= 1

\* C2: once cancelScheduledMessage has returned for a record it found
\* pending, the persisted status is canceled, no armed timer or running
\* callback of that id remains, and sendMessage is not invoked for it again.
C2_CancelDisarms ==
    \A id \in DOMAIN store :
        <<"cancelDone", id>> \in hist =>
            /\ (last.act = "cancelReturn" /\ last.id = id) =>
                  /\ store[id].status = "canceled"
                  /\ ArmedFor(id) = 0
                  /\ RunningFor(id) = 0
            /\ ~(last.act = "fire" /\ last.id = id)

\* C3: when updateScheduledMessage returns for a record it found pending,
\* the row carries the new data with status pending and exactly one callback
\* is armed for the id, holding the updated row; nothing armed or running
\* holds an earlier snapshot.
C3_UpdateRearmsOnce ==
    (last.act = "updateReturn" /\ last.was = "pending") =>
        /\ store[last.id] = last.row
        /\ last.row.status = "pending"
        /\ ArmedFor(last.id) = 1
        /\ \A tm \in BagToSet(ForId(timers, last.id)) : tm.message = last.row
        /\ RunningFor(last.id) = 0

\* No API call on this id is in flight.
Quiet(id) == \A op \in ops : op.id # id

SameContent(a, b) ==
    /\ a.contactId = b.contactId
    /\ a.content = b.content
    /\ a.mediaUrls = b.mediaUrls
    /\ a.recurring = b.recurring

\* C4: when sendMessage succeeds for a record, its status becomes sent; if
\* the record's recurrence is daily, weekly or monthly exactly one new row
\* is inserted, with a new id, status pending and the record's recipient,
\* content, attachments and recurrence, and it is armed; a record whose
\* recurrence is none gets no successor.
C4_SuccessorCreated ==
    /\ last.act = "sent" => store[last.id].status = "sent"
    /\ (last.act = "successor" /\ Quiet(last.id)) =>
          /\ store[last.id].recurring \in {"daily", "weekly", "monthly"}
          /\ last.row.id = Len(store) /\ last.row.id # last.id
          /\ store[last.row.id] = last.row
          /\ last.row.status = "pending"
          /\ SameContent(last.row, store[last.id])
    /\ last.act = "successorArmed" => ArmedFor(last.row.id) = 1
    /\ (last.act = "done" /\ Quiet(last.id)) => store[last.id].recurring = "none"

\* A step in which sendMessage rejects for the callback `task`.
SendFails(task) == SendReturns(task, FALSE, TRUE)

\* C5: when sendMessage fails the callback catches the error and ends, the
\* record's status becomes failed, no successor is inserted and nothing is
\* armed, and sendMessage is never invoked again for that id.
C5_FailureIsFinal ==
    /\ [](/\ last.act = "failed" => store[last.id].status = "failed"
          /\ ~(last.act = "fire" /\ <<"sendFailed", last.id>> \in hist))
    /\ [][\A task \in BagToSet(tasks) :
            SendFails(task) =>
                /\ Len(store') = Len(store)
                /\ timers' = timers
                /\ tasks' = BagRemove(tasks, task)]_vars

\* C8: scheduleMessage returns a record with status pending whose id differs
\* from the id of every other record returned by scheduleMessage or created
\* by the recurrence step.
C8_UniqueIds ==
    /\ last.act = "scheduleReturn" => last.row.status = "pending"
    /\ \A id \in BagToSet(issued) : CopiesIn(id, issued) = 1

\* An API call that found this id pending is still in flight.
FoundPending(id) == \E op \in ops : op.id = id /\ op.was = "pending"

\* C9: updateScheduledMessage applied to a record whose status is terminal
\* changes nothing and arms nothing, and no step moves the status of an id
\* from a terminal status back to pending.  (Calls that read the record
\* while it was still pending are left aside here.)
C9_NoReturnToPending ==
    [][/\ \A id \in DOMAIN store :
            (store[id].status \in Terminal /\ ~FoundPending(id))
                => store'[id].status # "pending"
       /\ \A op \in ops :
            (op.kind = "update" /\ op.was \in Terminal
                /\ (UpdateWrite(op, TRUE) \/ UpdateReturn(op)))
            => (store' = store /\ timers' = timers)]_vars

\* C10: cancelScheduledMessage applied to a record whose status is already
\* terminal leaves the row as it is and returns it.
C10_CancelTerminalNoOp ==
    [][\A op \in ops :
          (op.kind = "cancel" /\ op.was \in Terminal
              /\ store[op.id].status = op.was /\ CancelWrite(op, TRUE))
          => (store' = store /\ last'.row = store[op.id])]_vars

PendingIds == {id \in DOMAIN store : store[id].status = "pending"}

\* C6: when initializeScheduler has run, every row that is pending has
\* exactly one armed callback and no other row has one; each of these rows
\* then leaves pending, and no row ever re-enters pending, so exactly one
\* transition away from pending occurs per recovered row.
C6_RecoveryArmsEachOnce ==
    /\ [](last.act = "initialized" =>
            \A id \in DOMAIN store :
                ArmedFor(id) = IF id \in PendingIds THEN 1 ELSE 0)
    /\ [][\A id \in DOMAIN store :
            store[id].status # "pending" => store'[id].status # "pending"]_vars
    /\ \A id \in Ids :
          (last.act = "initialized" /\ id \in PendingIds)
              ~> (id \in DOMAIN store /\ store[id].status # "pending")

\* Two pending rows, one overdue and one still ahead, have just been re-armed
\* by initializeScheduler after a crash.
C6_Witness ==
    /\ last.act = "initialized"
    /\ crashes > 0
    /\ Cardinality(PendingIds) >= 2
    /\ \E id \in PendingIds : \E tm \in BagToSet(ForId(timers, id)) : tm.kind = "job"
    /\ \E id \in PendingIds : \E tm \in BagToSet(ForId(timers, id)) : tm.kind = "timeout"

\* The message is inside the near-immediate window at instant t.
Due(message, t) == message.scheduledTime - t < VeryNear

\* The setTimeout callback scheduleMessageJob arms for a due message at t.
Immediate(message, t) ==
    [kind |-> "timeout", message |-> message, fireAt |-> t + ImmediateDelay,
     mapped |-> FALSE]

\* The step has just armed this row.
JustArmed(row) ==
    \/ last.act \in {"scheduleReturn", "updateReturn", "successorArmed"}
          /\ last.row = row
    \/ last.act = "initialized" /\ row.id \in PendingIds /\ store[row.id] = row

\* C7: a pending record armed while its scheduledTime is at or before now, or
\* less than the grace window ahead, gets a callback that runs
\* ImmediateDelay after the arming whatever its scheduledTime; that callback
\* is not taken away before it runs (only the death of the process removes
\* it), no record is ever marked expired, and the record reaches sent or
\* failed.
C7_DueIsSentAtOnce ==
    /\ [](/\ \A id \in DOMAIN store : store[id].status # "expired"
          /\ \A id \in DOMAIN store :
                (JustArmed(store[id]) /\ Due(store[id], now))
                    => BagIn(Immediate(store[id], now), timers))
    /\ [][\A tm \in BagToSet(timers) :
            (tm.kind = "timeout" /\ CopiesIn(tm, timers') < CopiesIn(tm, timers))
                => (Fire(tm) \/ proc' = "down")]_vars
    /\ \A id \in Ids :
          (id \in DOMAIN store /\ JustArmed(store[id]) /\ Due(store[id], now))
              ~> (id \in DOMAIN store /\ store[id].status \in {"sent", "failed"})

\* A callback armed by the near-immediate branch runs while the
\* scheduledTime of its record, still pending, is yet to come.
C7_Witness ==
    /\ last.act = "fire" /\ last.was = "timeout"
    /\ last.row.scheduledTime > now
    /\ last.id \in DOMAIN store
    /\ store[last.id] = last.row

\* C11: a cancelScheduledMessage call that finds the record already
\* canceled raises nothing, leaves the row as the earlier call left it (the
\* row it found) and every other row untouched, and returns with
\* scheduledJobsMap holding no key for the id, every other key and every
\* armed callback as before.
C11_CancelTwiceIdempotent ==
    [][\A op \in ops :
        (op.kind = "cancel" /\ op.was = "canceled") =>
            /\ CancelWrite(op, TRUE)
                  => /\ store'[op.id] = op.row
                     /\ \A id \in DOMAIN store \ {op.id} : store'[id] = store[id]
                     /\ last'.act = "cancelWrite"
            /\ CancelReturn(op)
                  => /\ op.id \notin jobsMap'
                     /\ jobsMap' \ {op.id} = jobsMap \ {op.id}
                     /\ op.id \notin jobsMap => timers' = timers
                     /\ last'.act = "cancelReturn"]_vars

\* A second cancel call has returned for a record the first call canceled.
C11_Witness ==
    /\ last.act = "cancelReturn" /\ last.was = "canceled"
    /\ <<"cancelDone", last.id>> \in hist
    /\ store[last.id].status = "canceled"

\* C12: the recurrence step inserts a successor for a predecessor id only
\* if no successor was inserted for that id before.
C12_RecurrenceNeverForks ==
    [][\A task \in BagToSet(tasks) :
        (AfterSent(task, TRUE) /\ Len(store') > Len(store))
            => <<"successor", task.message.id>> \notin hist]_vars

\* The occurrence's scheduledTime plus its recurrence period.
PeriodLater(message) ==
    CASE message.recurring = "daily"   -> addDays(message.scheduledTime, 1)
      [] message.recurring = "weekly"  -> addDays(message.scheduledTime, 7)
      [] message.recurring = "monthly" -> addMonth(message.scheduledTime)
      [] OTHER -> message.scheduledTime

\* C13: whenever the recurrence step inserts a successor and the
\* occurrence's scheduledTime plus the recurrence period is later than the
\* instant the step runs, the successor's scheduledTime is that sum.
C13_SuccessorOnePeriodLater ==
    [][\A task \in BagToSet(tasks) :
        (AfterSent(task, TRUE) /\ Len(store') > Len(store)
            /\ PeriodLater(task.message) > now)
            => store'[Len(store')].scheduledTime = PeriodLater(task.message)]_vars

\* C14: every successor the recurrence step inserts has a scheduledTime
\* strictly later than the instant at which the step runs.
C14_SuccessorInFuture ==
    [][\A task \in BagToSet(tasks) :
        (AfterSent(task, TRUE) /\ Len(store') > Len(store))
            => store'[Len(store')].scheduledTime > now]_vars

\* C15: updateScheduledMessage and cancelScheduledMessage called with an id
\* that has no row return null at once without raising: no row is created
\* or changed, scheduledJobsMap and the armed callbacks stay as they are.
C15_UnknownIdIsNotFound ==
    [][\A id \in Ids \ DOMAIN store :
        ((\E data \in Inputs : UpdateGet(id, data, TRUE)) \/ CancelGet(id, TRUE))
            => /\ last'.act \in {"updateNotFound", "cancelNotFound"}
               /\ last'.row = NoMessage
               /\ UNCHANGED <<store, jobsMap, timers, tasks, ops>>]_vars

\* A call with an unknown id has returned not-found while another record
\* is armed.
C15_Witness ==
    /\ last.act \in {"updateNotFound", "cancelNotFound"}
    /\ last.id \notin DOMAIN store
    /\ store # <<>> /\ timers # EmptyBag

\* C16: when the insert is rejected scheduleMessage does not raise: it goes
\* on with a record that is not in the table, returns it with status pending
\* and arms it; when initializeScheduler has run after a restart no
\* callback is armed for that record.
C16_TransientRecord ==
    /\ [](/\ (last.act = "scheduleReturn" /\ last.id = TransientId) =>
                /\ last.row.status = "pending"
                /\ \A id \in DOMAIN store : store[id].id # TransientId
                /\ \E tm \in BagToSet(timers) : tm.message = last.row
          /\ last.act = "initialized" => ArmedFor(TransientId) = 0)
    /\ [][InsertRejected =>
            /\ last'.act = "scheduleInsert" /\ last'.id = TransientId
            /\ store' = store
            /\ \E op \in ops' \ ops : op.kind = "schedule" /\ op.row = last'.row]_vars

\* initializeScheduler has run after a crash that took a transient record,
\* returned by scheduleMessage and never sent, with it.
C16_Witness ==
    /\ last.act = "initialized" /\ crashes > 0
    /\ BagIn(TransientId, issued)
    /\ sendCount[TransientId] = 0
    /\ timers # EmptyBag

\* C17: a schedule request without contactId or without content ends in a
\* validation error before scheduleMessage is called: no row is inserted,
\* no call is in flight and nothing is armed.
C17_MissingFieldRejected ==
    [][\A body \in Requests :
        (PostSchedule(body, TRUE) /\ (body.contactId = 0 \/ body.content = ""))
            => /\ last'.act = "badRequest"
               /\ UNCHANGED <<store, ops, timers, jobsMap, tasks, issued>>]_vars

\* A request without content has been rejected.
C17_Witness == last.act = "badRequest" /\ last.was = "content"

\* C18: a request without scheduledTime is inserted with the instant of the
\* request as scheduledTime and armed on the near-immediate branch; a
\* recurring outside none, daily, weekly, monthly is accepted and stored as
\* none, and the execution of that record inserts no successor.
C18_RequestDefaults ==
    /\ [](/\ \A id \in DOMAIN store :
                <<"noTime", id>> \in hist
                    => store[id].scheduledTime = store[id].createdAt
          /\ (last.act = "scheduleReturn" /\ <<"noTime", last.id>> \in hist)
                => BagIn(Immediate(last.row, now), timers)
          /\ \A id \in DOMAIN store :
                <<"badRecurring", id>> \in hist => store[id].recurring = "none")
    /\ [][/\ \A body \in Requests :
                (PostSchedule(body, TRUE) /\ missingField(body) = "")
                    => last'.act = "scheduleInsert"
          /\ \A task \in BagToSet(tasks) :
                (AfterSent(task, TRUE)
                    /\ <<"badRecurring", task.message.id>> \in hist)
                    => Len(store') = Len(store)]_vars

\* A record requested without scheduledTime and with an unknown recurring
\* has been sent by the setTimeout callback, which ended without a
\* successor.
C18_Witness ==
    /\ last.act = "done" /\ last.was = "timeout"
    /\ {<<"noTime", last.id>>, <<"badRecurring", last.id>>} \subseteq hist
    /\ store[last.id].status = "sent"

\* The row of this id is marked canceled.
Canceled(id) == id \in DOMAIN store /\ store[id].status = "canceled"

\* C19: in every state a record whose status is canceled has no armed
\* callback; no callback fires (and calls sendMessage) for a record marked
\* canceled, and no step moves a status away from canceled.
C19_CancelAtomic ==
    /\ [](\A id \in DOMAIN store : Canceled(id) => ArmedFor(id) = 0)
    /\ [][\A tm \in BagToSet(timers) : Fire(tm) => ~Canceled(tm.message.id)]_vars
    /\ [][\A id \in DOMAIN store : Canceled(id) => store'[id].status = "canceled"]_vars

\* A step with which the callback `task` ends: the catch block after a
\* rejected send, or the end of the success path with or without successor.
Ends(task) ==
    \/ SendFails(task)
    \/ AfterSent(task, TRUE) /\ Len(store') = Len(store)
    \/ AfterInsert(task)

\* C20: when a callback ends, after a send that succeeded or failed,
\* scheduledJobsMap has no key for its record's id; and whenever no callback
\* is running and no API call is in flight for it, a record whose status is
\* sent, failed or canceled has no key in the map.
C20_MapEntryRemoved ==
    /\ [](tasks = EmptyBag =>
            \A id \in DOMAIN store :
                (store[id].status \in Terminal /\ Quiet(id)) => id \notin jobsMap)
    /\ [][\A task \in BagToSet(tasks) :
            Ends(task) => task.message.id \notin jobsMap']_vars

\* The recurrence step of the callback `task` inserts a successor.
InsertsSuccessor(task) == AfterSent(task, TRUE) /\ Len(store') > Len(store)

\* C21: at the step that inserts a successor the persisted status of the
\* predecessor is sent, not pending, failed or canceled.
C21_SuccessorAfterSent ==
    [][\A task \in BagToSet(tasks) :
        InsertsSuccessor(task)
            => /\ task.message.id \in DOMAIN store
               /\ store[task.message.id].status = "sent"]_vars

\* The callback has settled its send for this id.
Executed(id) == <<"sendOk", id>> \in hist \/ <<"sendFailed", id>> \in hist

\* C22: for a persisted record that is never updated, in a process that is
\* not restarted, the steps come in the order create, arm, execute,
\* terminal/recurrence: a callback is armed only for a row that exists, the
\* execute path starts only from an armed callback and at most once, so
\* sendMessage is invoked at most once for the id, the execute path moves
\* the status away from pending at most once, and a successor is inserted
\* only after the send of its predecessor.
C22_SingleRecordOrdered ==
    /\ [](/\ \A id \in DOMAIN store : sendCount[id] <= 1
          /\ \A tm \in BagToSet(timers) :
                tm.message.id # TransientId => tm.message.id \in DOMAIN store)
    /\ [][/\ \A id \in DOMAIN store :
                sendCount'[id] > sendCount[id]
                    => /\ ArmedFor(id) = 1 /\ sendCount[id] = 0
                       /\ ~Executed(id)
          /\ \A id \in DOMAIN store :
                (store[id].status = "pending"
                    /\ store'[id].status \in {"sent", "failed"})
                    => /\ sendCount[id] = 1 /\ ~Executed(id)
                       /\ Executed(id)'
          /\ \A task \in BagToSet(tasks) :
                InsertsSuccessor(task)
                    => <<"sendOk", task.message.id>> \in hist]_vars

\* A deferred recurring record has been sent once by its Job and its
\* successor has been armed, the status of the record being sent.
C22_Witness ==
    /\ last.act = "successorArmed" /\ last.was = "job"
    /\ sendCount[last.id] = 1
    /\ store[last.id].status = "sent"
    /\ ArmedFor(last.row.id) = 1

\* The Job scheduleMessageJob arms for a message that is not due: a one-shot
\* Job at the message's scheduledTime, held by scheduledJobsMap.
Deferred(message) ==
    [kind |-> "job", message |-> message, fireAt |-> message.scheduledTime,
     mapped |-> TRUE]

\* What scheduleMessageJob(row), run at instant t, has done when a step
\* takes the armed callbacks from tm to tm2 and the map keys from jm to jm2:
\* for a row that is not due, one Job at scheduledTime under the key of the
\* id and no further setTimeout callback; for a due row, one further
\* setTimeout callback, no further Job and no new key.
ArmedAs(row, tm, tm2, jm, jm2, t) ==
    IF row.scheduledTime - t >= VeryNear
    THEN /\ row.id \in jm2
         /\ CopiesIn(Deferred(row), tm2) = 1
         /\ CopiesIn(Immediate(row, t), tm2) = CopiesIn(Immediate(row, t), tm)
    ELSE /\ CopiesIn(Immediate(row, t), tm2) = CopiesIn(Immediate(row, t), tm) + 1
         /\ CopiesIn(Deferred(row), tm2) <= CopiesIn(Deferred(row), tm)
         /\ row.id \notin jm2 \ jm

HungSend == \E task \in BagToSet(tasks) : Hangs(task) /\ task.pc = "sending"

\* C24: while the sendMessage call of one record hangs that record stays
\* pending, and every other record that is armed has its callback started
\* and reaches sent or failed.
C24_HungSendStallsOnlyItself ==
    /\ [](HungSend => \A task \in BagToSet(tasks) :
                        Hangs(task) => store[task.message.id].status = "pending")
    /\ \A id \in Ids :
          (HungSend /\ id \in DOMAIN store /\ ~Hangs([message |-> store[id]])
                /\ ArmedFor(id) > 0)
              ~> (sendCount[id] > 0 /\ store[id].status \in {"sent", "failed"})

\* While the send of the first record hangs, a record armed after it has
\* been sent.
C24_Witness ==
    /\ HungSend
    /\ last.act = "sent" /\ ~Hangs([message |-> last.row])
    /\ store[last.id].status = "sent"
    /\ store[1].status = "pending"

\* Row b is row a with, at most, another status.
StatusOnly(a, b) == b = [a EXCEPT !.status = b.status]

\* A step of a callback (start, send settled, recurrence step) or of
\* cancelScheduledMessage.
CallbackOrCancel ==
    \/ \E tm \in BagToSet(timers) : Fire(tm)
    \/ \E task \in BagToSet(tasks), sendOk \in BOOLEAN : SendReturns(task, sendOk, TRUE)
    \/ \E task \in BagToSet(tasks) : AfterSent(task, TRUE) \/ AfterInsert(task)
    \/ \E op \in ops : CancelWrite(op, TRUE) \/ CancelReturn(op)

\* C25: a callback starting, a send that succeeded or failed, the
\* recurrence step and cancelScheduledMessage leave every existing row as
\* it was but for its status (contactId, content, mediaUrls, scheduledTime,
\* recurring, createdAt and id unchanged), and no step removes a row.
C25_OnlyStatusChanges ==
    /\ [][CallbackOrCancel =>
            \A id \in DOMAIN store :
                id \in DOMAIN store' /\ StatusOnly(store[id], store'[id])]_vars
    /\ [][\A id \in DOMAIN store :
            id \in DOMAIN store' /\ store'[id].id = id]_vars

\* A recurring record with an attachment has been sent, has got its
\* successor and has then been canceled.
C25_Witness ==
    /\ last.act = "cancelWrite" /\ last.was = "sent"
    /\ store[last.id].status = "canceled"
    /\ store[last.id].mediaUrls # <<>>
    /\ <<"successor", last.id>> \in hist

\* The row of this id was sent, failed, canceled or expired when
\* initializeScheduler queried the table.
SettledAtStart(id) == <<"settledAtStart", id>> \in hist

\* C26: initializeScheduler arms only rows it read as pending: when it has
\* run, every armed callback holds a row of the table with status pending,
\* no callback is armed for a row that was sent, failed, canceled or
\* expired at startup, and no callback ever starts (and calls sendMessage)
\* for such a row afterwards.
C26_RecoveryArmsPendingOnly ==
    /\ [][initializeScheduler =>
            /\ \A tm \in BagToSet(timers') :
                  /\ tm.message.id \in DOMAIN store
                  /\ tm.message = store[tm.message.id]
                  /\ tm.message.status = "pending"
            /\ \A id \in DOMAIN store :
                  store[id].status # "pending" => ArmedFor(id)' = 0]_vars
    /\ [](\A id \in DOMAIN store : SettledAtStart(id) => ArmedFor(id) = 0)
    /\ [][\A tm \in BagToSet(timers) :
            Fire(tm) => ~SettledAtStart(tm.message.id)]_vars

\* initializeScheduler has run over a table holding a sent row, a canceled
\* row and a pending row, and has armed the pending one only.
C26_Witness ==
    /\ last.act = "initialized"
    /\ \E id \in DOMAIN store : store[id].status = "sent" /\ SettledAtStart(id)
    /\ \E id \in DOMAIN store : store[id].status = "canceled" /\ SettledAtStart(id)
    /\ \E id \in PendingIds : ArmedFor(id) = 1
    /\ BagCardinality(timers) = 1

\* C27: in every state each armed callback is held by scheduledJobsMap
\* under the id of its record, and no id has two armed callbacks.
C27_ArmedIsMapped ==
    /\ \A tm \in BagToSet(timers) : tm.mapped /\ tm.message.id \in jobsMap
    /\ \A tm \in BagToSet(timers) : ArmedFor(tm.message.id) = 1

\* A callback of this id started while an updateScheduledMessage call for
\* the id was suspended on a storage call.
FiredInUpdate(id) == <<"firedInUpdate", id>> \in hist

\* C28: for an id whose callback started while updateScheduledMessage for
\* that id was suspended on a storage call, sendMessage is invoked at most
\* once, and no step takes the row from sent back to pending.
C28_FireDuringUpdate ==
    /\ [](\A id \in DOMAIN store : FiredInUpdate(id) => sendCount[id] <= 1)
    /\ [][\A id \in DOMAIN store :
            (FiredInUpdate(id) /\ store[id].status = "sent")
                => store'[id].status # "pending"]_vars

\* C29: a row has status failed only if sendMessage failed for its id; a
\* record whose send succeeded is never marked failed, also when the write
\* of status sent is rejected.
C29_FailedOnlyIfSendFailed ==
    \A id \in DOMAIN store :
        store[id].status = "failed" => <<"sendFailed", id>> \in hist

\* The insert of the successor of this id was rejected.
SuccessorFailed(id) == <<"successorFails", id>> \in hist

\* C30: when the insert of the successor is rejected inside the recurrence
\* step the callback ends there: no row is added or changed, the
\* predecessor stays sent, nothing is armed; afterwards the predecessor is
\* still sent, it has no successor and no row shows failed on account of it.
C30_SuccessorFailureSwallowed ==
    /\ [][\A task \in BagToSet(tasks) :
            AfterSent(task, FALSE)
                => /\ store' = store
                   /\ store[task.message.id].status = "sent"
                   /\ tasks' = BagRemove(tasks, task)
                   /\ \A id \in 0..MaxRecords : ArmedFor(id)' = ArmedFor(id)
                   /\ last'.act = "successorFails"]_vars
    /\ [](\A id \in DOMAIN store :
            SuccessorFailed(id)
                => /\ store[id].status = "sent"
                   /\ <<"successor", id>> \notin hist
                   /\ RunningFor(id) = 0)

\* The successor's insert of a sent recurring record was rejected and the
\* callback has ended: the record is sent, it is the last row of the table
\* and nothing is armed or running.
C30_Witness ==
    /\ last.act = "successorFails"
    /\ store[last.id].status = "sent"
    /\ store[last.id].recurring # "none"
    /\ last.id = Len(store)
    /\ timers = EmptyBag /\ tasks = EmptyBag

\* The row of this id was pending when the startup query was rejected, and
\* no startup query has succeeded since.
MissedAtStart(id) == <<"missedAtStart", id>> \in hist

\* C31: when the query of initializeScheduler is rejected the call goes on
\* and returns without raising and arms nothing; every row that was pending
\* then stays pending with no armed or running callback until a later
\* initializeScheduler whose query succeeds.
C31_FailedStartArmsNothing ==
    /\ [][/\ Start(FALSE) => (proc' = "init" /\ initRows' = <<>>)
          /\ (initializeScheduler /\ last.act = "startQueryFails")
                => /\ proc' = "up"
                   /\ timers' = EmptyBag /\ jobsMap' = {}
                   /\ store' = store
                   /\ last'.act = "initialized"]_vars
    /\ [](\A id \in DOMAIN store :
            MissedAtStart(id)
                => /\ store[id].status = "pending"
                   /\ ArmedFor(id) = 0
                   /\ RunningFor(id) = 0)

\* A start whose query was rejected has returned: two rows are pending and
\* nothing is armed.
C31_Witness ==
    /\ last.act = "initialized" /\ proc = "up"
    /\ Cardinality({id \in PendingIds : MissedAtStart(id)}) >= 2
    /\ timers = EmptyBag

\* C32: whatever the recipient check yields (found, not found, lookup
\* raised), scheduleMessage inserts the row with the data it was given and
\* status pending, and returns it armed.
C32_RecipientCheckNeverBlocks ==
    /\ [][\A data \in CheckedInputs, dir \in Directories :
            (ScheduleChecked(data, dir) /\ calls < MaxCalls)
                => /\ Len(store') = Len(store) + 1
                   /\ store'[Len(store')].status = "pending"
                   /\ store'[Len(store')].contactId = data.contactId
                   /\ last'.act = "scheduleInsert"
                   /\ <<checkRecipient(data.contactId, dir), Len(store')>>
                         \in hist']_vars
    /\ [](last.act = "scheduleReturn"
            => /\ last.id \in DOMAIN store
               /\ \E tm \in BagToSet(timers) : tm.message = last.row)

\* scheduleMessage has returned, armed, a message to a group the lookup
\* does not hold.
C32_Witness ==
    /\ last.act = "scheduleReturn"
    /\ <<"notFound", last.id>> \in hist
    /\ last.row.contactId >= GroupIdBase
    /\ store[last.id].status = "pending"
    /\ ArmedFor(last.id) = 1

====
